---- MODULE Spec2Model ----
(***************************************************************************)
(* Model of src/data/cargar_datos.py: the one-shot loader that fills the   *)
(* eight tables sede, docente, clase, matricula, alumno, clase_has_sede,   *)
(* pago and asistencia through one connection and one cursor.              *)
(*                                                                         *)
(* The script is one sequential thread; a step of the model is one call on *)
(* the database (execute, executemany, commit, close) together with the    *)
(* local statements around it.  The store is the external collaborator:    *)
(* tx is what the open transaction sees, db is what has been committed.    *)
(* A single-row INSERT returns the auto-increment id of the row; the store *)
(* starts empty, so the k-th row of a table has id k.  Any call on the     *)
(* store outside the retry loop of clase_has_sede may fail with a database *)
(* error; a failed INSERT stores nothing, a failed COMMIT rolls the open   *)
(* transaction back, and closing the connection discards whatever is       *)
(* uncommitted.  Inside the retry loop the failure explored is the one the *)
(* loop is written for, the duplicate pair.  Which ALTER statements the    *)
(* store refuses is fixed per run (refused).                               *)
(*                                                                         *)
(* N and BATCH are the script's constants (1000 and 200).  They are scaled *)
(* down: each run fixes N in 1..MaxN and BATCH in 1..MaxBatch at start.    *)
(* random.choice over an id list is restricted to its first MaxDraw        *)
(* entries.                                                                *)
(***************************************************************************)
EXTENDS Integers, Sequences, FiniteSets

MaxN == 4
MaxBatch == 2
MaxDraw == 1

NumAlters == 10
BudgetFactor == 4

VARIABLES
    N, BATCH,                \* generation parameters (lines 48, 51)
    pc, cur, i,              \* control: location, table in progress, loop index
    conn, cursor,            \* "none" | "open" | "closed"
    refused,                 \* store: the ALTER statements (by position) it refuses
    s, applied_alters,       \* ALTER loop: statements attempted, statements applied
    ids,                     \* sede_ids, docente_ids, clase_ids, matricula_ids, alumno_ids
    relaciones_insertadas, intentos,
    batch, count,            \* pagos_batch / asistencia_batch, pago_count / asistencia_count
    tx, db,                  \* store: rows per table seen by the transaction / committed
    links, linksDb,          \* store: clase_has_sede rows (pair -> copies), same two views
    commits, finalPending,   \* history: commits issued per table; rows pending at the post-loop commit
    issued, issuedTo,        \* history: rows the last statement inserted, and their table
    logged, summary

vars == <<N, BATCH, pc, cur, i, conn, cursor, refused, s, applied_alters, ids,
          relaciones_insertadas, intentos, batch, count, tx, db, links, linksDb,
          commits, finalPending, issued, issuedTo, logged, summary>>

----------------------------------------------------------------------------
(* Static structure of the script                                          *)

Tables == <<"sede", "docente", "clase", "matricula", "alumno",
            "clase_has_sede", "pago", "asistencia">>

TableSet == {Tables[k] : k \in 1..Len(Tables)}

OneAtATime == {"sede", "docente", "clase", "matricula", "alumno"}

FastPath == {"pago", "asistencia"}

\* The position of each table in the generation order.
Position == [t \in TableSet |-> CHOOSE k \in 1..Len(Tables) : Tables[k] = t]

Index(t) == Position[t]

\* Foreign keys of a row of t: the referenced tables.
Parents(t) ==
    CASE t = "clase" -> {"docente"}
      [] t = "alumno" -> {"matricula", "sede"}
      [] t = "clase_has_sede" -> {"clase", "sede"}
      [] t = "pago" -> {"alumno"}
      [] t = "asistencia" -> {"alumno", "clase", "sede"}
      [] OTHER -> {}

\* Columns of t whose value goes through maybe_null.
NullWrapped(t) ==
    CASE t = "sede" -> {"ubicacion"}
      [] t = "docente" -> {"nombre_docente"}
      [] t = "clase" -> {"nombre_clase"}
      [] t = "matricula" -> {"costo"}
      [] t = "alumno" -> {"nombre_alumno"}
      [] t = "pago" -> {"valor_pago", "periodo"}
      [] OTHER -> {}

NoSummary == [t \in {} |-> 0]

Min(a, b) == IF a < b THEN a ELSE b

Range(q) == {q[k] : k \in 1..Len(q)}

----------------------------------------------------------------------------
(* Helpers                                                                 *)

\* maybe_null(value): None or the value; here the set of columns replaced
\* by None in one row of t, each column decided independently.
maybe_null(t) == SUBSET NullWrapped(t)

\* random.choice(seq), restricted to the first MaxDraw entries.
Choice(seq) == {seq[k] : k \in 1..Min(Len(seq), MaxDraw)}

\* The foreign keys of one generated row of t: one random.choice per parent.
FkChoices(t) ==
    {f \in [Parents(t) -> 1..(MaxN + 1)] : \A p \in Parents(t) : f[p] \in Choice(ids[p])}

\* The rows one iteration of the loop of t can generate.
GenRow(t) == {[nulls |-> n, fk |-> f] : n \in maybe_null(t), f \in FkChoices(t)}

\* Mutant: the test written on i instead of i + 1.
BatchFullOffByOne(k) == (k - 1) % BATCH = 0

\* (i + 1) % BATCH == 0, the batch commit test of the one-at-a-time loops.
BatchFull(k) == k % BATCH = 0

\* Mutant: > for >=.
FlushDueLate(q) == Len(q) > BATCH

\* len(batch) >= BATCH, the flush test of the fast-path loops.
FlushDue(q) == Len(q) >= BATCH

\* Mutant: the remainder flush left out.
RemainderDueNever(q) == FALSE

\* if pagos_batch: / if asistencia_batch: the remainder test after the loop.
RemainderDue(q) == q # <<>>

\* Mutant: the attempt budget left out.
LoopCondNoBudget == relaciones_insertadas < N

\* relaciones_insertadas < N and intentos < N * 4
LoopCond == relaciones_insertadas < N /\ intentos < N * BudgetFactor

\* The store's uniqueness constraint on clase_has_sede (clase_id, sede_id).
Duplicate(pair) == pair \in DOMAIN links /\ links[pair] > 0

AddLink(pair) ==
    [p \in DOMAIN links \cup {pair} |->
        IF p = pair THEN (IF p \in DOMAIN links THEN links[p] ELSE 0) + 1 ELSE links[p]]

NextTable(t) == Tables[Index(t) + 1]

\* What conn.commit() makes durable: everything the transaction holds.
CommitRows == tx

\* What a rollback leaves in the transaction: only what was committed.
RollbackRows == db

\* Mutant: the attempts printed for clase_has_sede.
SummaryCountsAttempts ==
    [t \in TableSet |->
        IF t \in OneAtATime THEN Len(ids[t])
        ELSE IF t = "clase_has_sede" THEN intentos
        ELSE count[t]]

\* The eight counts the summary prints (lines 263-270).
SummaryCounts ==
    [t \in TableSet |->
        IF t \in OneAtATime THEN Len(ids[t])
        ELSE IF t = "clase_has_sede" THEN relaciones_insertadas
        ELSE count[t]]

\* The outcomes of the ALTER loop that are explored: every statement applied,
\* every statement refused (no ALTER privilege), the two on sede refused.
RefusalPatterns == {{}, 1..NumAlters, {1, 2}}

sede_ids == ids["sede"]
docente_ids == ids["docente"]
clase_ids == ids["clase"]
matricula_ids == ids["matricula"]
alumno_ids == ids["alumno"]
pagos_batch == batch["pago"]
asistencia_batch == batch["asistencia"]
pago_count == count["pago"]
asistencia_count == count["asistencia"]

----------------------------------------------------------------------------
(* Initial state: before mysql.connector.connect                           *)

Init ==
    /\ N \in 1..MaxN
    /\ BATCH \in 1..MaxBatch
    /\ refused \in RefusalPatterns
    /\ pc = "connect"
    /\ cur = "sede"
    /\ i = 0
    /\ conn = "none"
    /\ cursor = "none"
    /\ s = 0
    /\ applied_alters = 0
    /\ ids = [t \in OneAtATime |-> <<>>]
    /\ relaciones_insertadas = 0
    /\ intentos = 0
    /\ batch = [t \in FastPath |-> <<>>]
    /\ count = [t \in FastPath |-> 0]
    /\ tx = [t \in TableSet |-> 0]
    /\ db = [t \in TableSet |-> 0]
    /\ links = <<>>
    /\ linksDb = <<>>
    /\ commits = [t \in TableSet |-> 0]
    /\ finalPending = [t \in TableSet |-> -1]
    /\ issued = {}
    /\ issuedTo = "none"
    /\ logged = 0
    /\ summary = NoSummary

----------------------------------------------------------------------------
(* Building blocks of the steps                                            *)

ctlVars == <<N, BATCH, refused>>
altVars == <<s, applied_alters>>
genVars == <<ids, relaciones_insertadas, intentos, batch, count>>
storeVars == <<tx, db, links, linksDb>>

\* conn.commit() succeeds, issued while generating t.
Commit(t) ==
    /\ db' = CommitRows
    /\ linksDb' = links
    /\ commits' = [commits EXCEPT ![t] = @ + 1]
    /\ issued' = {}
    /\ issuedTo' = "none"
    /\ UNCHANGED <<tx, links>>

\* conn.commit() raises: the store rolls the transaction back.
CommitFail(t) ==
    /\ tx' = RollbackRows
    /\ links' = linksDb
    /\ commits' = [commits EXCEPT ![t] = @ + 1]
    /\ issued' = {}
    /\ issuedTo' = "none"
    /\ UNCHANGED <<db, linksDb>>

\* Mutant: the handler ends the program without the cleanup.
EscalateNoCleanup ==
    /\ logged' = logged + 1
    /\ pc' = "closed"

\* except Error as e: print("Error durante la carga:", e), then on to finally.
Escalate ==
    /\ logged' = logged + 1
    /\ pc' = "finally"

\* Where control goes when the table t is finished.
AfterTable(t) == IF Index(t) < Len(Tables) THEN "loop" ELSE "summary"

TableAfter(t) == IF Index(t) < Len(Tables) THEN NextTable(t) ELSE t

----------------------------------------------------------------------------
(* Connection and schema relaxation (lines 82-113)                         *)

Connect ==
    /\ pc = "connect"
    /\ conn' = "open"
    /\ cursor' = "open"
    /\ pc' = "alters"
    /\ UNCHANGED <<ctlVars, cur, i, altVars, genVars, storeVars, commits, finalPending,
                   issued, issuedTo, logged, summary>>

ConnectFail ==
    /\ pc = "connect"
    /\ Escalate
    /\ UNCHANGED <<ctlVars, cur, i, conn, cursor, altVars, genVars, storeVars, commits,
                   finalPending, issued, issuedTo, summary>>

AlterApplied ==
    /\ pc = "alters"
    /\ s < NumAlters
    /\ (s + 1) \notin refused
    /\ s' = s + 1
    /\ applied_alters' = applied_alters + 1
    /\ UNCHANGED <<ctlVars, pc, cur, i, conn, cursor, genVars, storeVars, commits,
                   finalPending, issued, issuedTo, logged, summary>>

\* except Exception: pass
AlterRefused ==
    /\ pc = "alters"
    /\ s < NumAlters
    /\ (s + 1) \in refused
    /\ s' = s + 1
    /\ UNCHANGED <<ctlVars, pc, cur, i, conn, cursor, applied_alters, genVars, storeVars,
                   commits, finalPending, issued, issuedTo, logged, summary>>

\* if applied_alters: conn.commit() ... else: print(...)
AltersDone ==
    /\ pc = "alters"
    /\ s = NumAlters
    /\ db' = IF applied_alters > 0 THEN CommitRows ELSE db
    /\ linksDb' = IF applied_alters > 0 THEN links ELSE linksDb
    /\ pc' = "loop"
    /\ UNCHANGED <<ctlVars, cur, i, conn, cursor, altVars, genVars, tx, links, commits,
                   finalPending, issued, issuedTo, logged, summary>>

AltersCommitFail ==
    /\ pc = "alters"
    /\ s = NumAlters
    /\ applied_alters > 0
    /\ tx' = RollbackRows
    /\ links' = linksDb
    /\ Escalate
    /\ UNCHANGED <<ctlVars, cur, i, conn, cursor, altVars, genVars, db, linksDb, commits,
                   finalPending, issued, issuedTo, summary>>

----------------------------------------------------------------------------
(* One-at-a-time tables: sede, docente, clase, matricula, alumno           *)
(* (lines 115-198)                                                         *)

InsertRow(t) ==
    /\ pc = "loop" /\ cur = t /\ i < N
    /\ \E row \in GenRow(t) : issued' = {row}
    /\ issuedTo' = t
    /\ tx' = [tx EXCEPT ![t] = @ + 1]
    /\ ids' = [ids EXCEPT ![t] = Append(@, tx[t] + 1)]
    /\ i' = i + 1
    /\ pc' = IF BatchFull(i + 1) THEN "batch_commit" ELSE "loop"
    /\ UNCHANGED <<ctlVars, cur, conn, cursor, altVars, relaciones_insertadas, intentos, batch,
                   count, db, links, linksDb, commits, finalPending, logged, summary>>

InsertRowFail(t) ==
    /\ pc = "loop" /\ cur = t /\ i < N
    /\ Escalate
    /\ UNCHANGED <<ctlVars, cur, i, conn, cursor, altVars, genVars, storeVars, commits,
                   finalPending, issued, issuedTo, summary>>

BatchCommit(t) ==
    /\ pc = "batch_commit" /\ cur = t
    /\ Commit(t)
    /\ pc' = "loop"
    /\ UNCHANGED <<ctlVars, cur, i, conn, cursor, altVars, genVars, finalPending, logged, summary>>

BatchCommitFail(t) ==
    /\ pc = "batch_commit" /\ cur = t
    /\ CommitFail(t)
    /\ Escalate
    /\ UNCHANGED <<ctlVars, cur, i, conn, cursor, altVars, genVars, finalPending, summary>>

\* Mutant: the commit after the loop left out.
FinalCommitOmitted(t) ==
    /\ pc = "loop" /\ cur = t /\ i = N
    /\ cur' = NextTable(t)
    /\ i' = 0
    /\ UNCHANGED <<ctlVars, pc, conn, cursor, altVars, genVars, storeVars, commits,
                   finalPending, issued, issuedTo, logged, summary>>

\* Mutant: the commit after the loop issued only with rows pending.
FinalCommitIfPending(t) ==
    /\ pc = "loop" /\ cur = t /\ i = N
    /\ IF tx[t] > db[t]
         THEN /\ finalPending' = [finalPending EXCEPT ![t] = tx[t] - db[t]]
              /\ Commit(t)
         ELSE UNCHANGED <<storeVars, commits, finalPending, issued, issuedTo>>
    /\ cur' = NextTable(t)
    /\ i' = 0
    /\ UNCHANGED <<ctlVars, pc, conn, cursor, altVars, genVars, logged, summary>>

\* The conn.commit() after the loop (lines 129, 146, 163, 179, 197).
FinalCommit(t) ==
    /\ pc = "loop" /\ cur = t /\ i = N
    /\ finalPending' = [finalPending EXCEPT ![t] = tx[t] - db[t]]
    /\ Commit(t)
    /\ cur' = NextTable(t)
    /\ i' = 0
    /\ UNCHANGED <<ctlVars, pc, conn, cursor, altVars, genVars, logged, summary>>

FinalCommitFail(t) ==
    /\ pc = "loop" /\ cur = t /\ i = N
    /\ finalPending' = [finalPending EXCEPT ![t] = tx[t] - db[t]]
    /\ CommitFail(t)
    /\ Escalate
    /\ UNCHANGED <<ctlVars, cur, i, conn, cursor, altVars, genVars, summary>>

----------------------------------------------------------------------------
(* clase_has_sede: the retry loop (lines 200-215)                          *)

LinkPair(row) == <<row.fk["clase"], row.fk["sede"]>>

\* The INSERT succeeds: a pair not yet linked.
LinkInsert ==
    /\ pc = "loop" /\ cur = "clase_has_sede" /\ LoopCond
    /\ \E row \in GenRow("clase_has_sede") :
        /\ ~Duplicate(LinkPair(row))
        /\ links' = AddLink(LinkPair(row))
        /\ issued' = {row}
    /\ issuedTo' = "clase_has_sede"
    /\ intentos' = intentos + 1
    /\ relaciones_insertadas' = relaciones_insertadas + 1
    /\ tx' = [tx EXCEPT !["clase_has_sede"] = @ + 1]
    /\ pc' = IF BatchFull(relaciones_insertadas + 1) THEN "batch_commit" ELSE "loop"
    /\ UNCHANGED <<ctlVars, cur, i, conn, cursor, altVars, ids, batch, count, db, linksDb,
                   commits, finalPending, logged, summary>>

\* The INSERT violates the uniqueness constraint: except Exception: pass
LinkDuplicate ==
    /\ pc = "loop" /\ cur = "clase_has_sede" /\ LoopCond
    /\ \E row \in GenRow("clase_has_sede") : Duplicate(LinkPair(row))
    /\ intentos' = intentos + 1
    /\ UNCHANGED <<ctlVars, pc, cur, i, conn, cursor, altVars, ids, relaciones_insertadas,
                   batch, count, storeVars, commits, finalPending, issued, issuedTo, logged, summary>>

\* if relaciones_insertadas % BATCH == 0: conn.commit()
LinkBatchCommit ==
    /\ pc = "batch_commit" /\ cur = "clase_has_sede"
    /\ Commit("clase_has_sede")
    /\ pc' = "loop"
    /\ UNCHANGED <<ctlVars, cur, i, conn, cursor, altVars, genVars, finalPending, logged, summary>>

\* The loop has ended: conn.commit() (line 214).
LinkFinalCommit ==
    /\ pc = "loop" /\ cur = "clase_has_sede" /\ ~LoopCond
    /\ finalPending' = [finalPending EXCEPT !["clase_has_sede"] = tx[cur] - db[cur]]
    /\ Commit("clase_has_sede")
    /\ cur' = NextTable("clase_has_sede")
    /\ i' = 0
    /\ UNCHANGED <<ctlVars, pc, conn, cursor, altVars, genVars, logged, summary>>

LinkFinalCommitFail ==
    /\ pc = "loop" /\ cur = "clase_has_sede" /\ ~LoopCond
    /\ finalPending' = [finalPending EXCEPT !["clase_has_sede"] = tx[cur] - db[cur]]
    /\ CommitFail("clase_has_sede")
    /\ Escalate
    /\ UNCHANGED <<ctlVars, cur, i, conn, cursor, altVars, genVars, summary>>

----------------------------------------------------------------------------
(* Fast-path tables: pago, asistencia (lines 217-259)                      *)

\* batch.append(row), then the flush test.
AppendRow(t) ==
    /\ pc = "loop" /\ cur = t /\ i < N
    /\ \E row \in GenRow(t) :
        /\ batch' = [batch EXCEPT ![t] = Append(@, row)]
        /\ pc' = IF FlushDue(Append(batch[t], row)) THEN "flush" ELSE "loop"
    /\ i' = i + 1
    /\ UNCHANGED <<ctlVars, cur, conn, cursor, altVars, ids, relaciones_insertadas, intentos,
                   count, storeVars, commits, finalPending, issued, issuedTo, logged,
                   summary>>

\* cursor.executemany(...); count += len(batch); inside the loop also batch = [].
\* After the loop the list is left as it is, and never read again: the model
\* empties it there too.
ExecuteMany(t, at, to) ==
    /\ pc = at /\ cur = t
    /\ issued' = Range(batch[t])
    /\ issuedTo' = t
    /\ tx' = [tx EXCEPT ![t] = @ + Len(batch[t])]
    /\ count' = [count EXCEPT ![t] = @ + Len(batch[t])]
    /\ batch' = [batch EXCEPT ![t] = <<>>]
    /\ pc' = to
    /\ UNCHANGED <<ctlVars, cur, i, conn, cursor, altVars, ids, relaciones_insertadas, intentos,
                   db, links, linksDb, commits, finalPending, logged, summary>>

ExecuteManyFail(t, at) ==
    /\ pc = at /\ cur = t
    /\ Escalate
    /\ UNCHANGED <<ctlVars, cur, i, conn, cursor, altVars, genVars, storeVars, commits,
                   finalPending, issued, issuedTo, summary>>

Flush(t) == ExecuteMany(t, "flush", "flush_commit")

FlushFail(t) == ExecuteManyFail(t, "flush")

FlushCommit(t) ==
    /\ pc = "flush_commit" /\ cur = t
    /\ Commit(t)
    /\ pc' = "loop"
    /\ UNCHANGED <<ctlVars, cur, i, conn, cursor, altVars, genVars, finalPending, logged, summary>>

FlushCommitFail(t) ==
    /\ pc = "flush_commit" /\ cur = t
    /\ CommitFail(t)
    /\ Escalate
    /\ UNCHANGED <<ctlVars, cur, i, conn, cursor, altVars, genVars, finalPending, summary>>

\* After the loop: if batch: flush what is left, else go on.
LoopEnd(t) ==
    /\ pc = "loop" /\ cur = t /\ i = N
    /\ IF RemainderDue(batch[t])
         THEN pc' = "final_flush" /\ UNCHANGED <<cur, i>>
         ELSE pc' = AfterTable(t) /\ cur' = TableAfter(t) /\ i' = 0
    /\ UNCHANGED <<ctlVars, conn, cursor, altVars, genVars, storeVars, commits, finalPending,
                   issued, issuedTo, logged, summary>>

FinalFlush(t) == ExecuteMany(t, "final_flush", "final_commit")

FinalFlushFail(t) == ExecuteManyFail(t, "final_flush")

FinalFlushCommit(t) ==
    /\ pc = "final_commit" /\ cur = t
    /\ finalPending' = [finalPending EXCEPT ![t] = tx[t] - db[t]]
    /\ Commit(t)
    /\ pc' = AfterTable(t)
    /\ cur' = TableAfter(t)
    /\ i' = 0
    /\ UNCHANGED <<ctlVars, conn, cursor, altVars, genVars, logged, summary>>

FinalFlushCommitFail(t) ==
    /\ pc = "final_commit" /\ cur = t
    /\ finalPending' = [finalPending EXCEPT ![t] = tx[t] - db[t]]
    /\ CommitFail(t)
    /\ Escalate
    /\ UNCHANGED <<ctlVars, cur, i, conn, cursor, altVars, genVars, summary>>

----------------------------------------------------------------------------
(* Summary and cleanup (lines 261-278)                                     *)

Summary ==
    /\ pc = "summary"
    /\ summary' = SummaryCounts
    /\ pc' = "finally"
    /\ UNCHANGED <<ctlVars, cur, i, conn, cursor, altVars, genVars, storeVars, commits,
                   finalPending, issued, issuedTo, logged>>

\* finally: cursor.close(); conn.close().  The store drops what is uncommitted.
Finally ==
    /\ pc = "finally"
    /\ cursor' = IF cursor = "open" THEN "closed" ELSE cursor
    /\ conn' = IF conn = "open" THEN "closed" ELSE conn
    /\ tx' = RollbackRows
    /\ links' = linksDb
    /\ pc' = "closed"
    /\ UNCHANGED <<ctlVars, cur, i, altVars, genVars, db, linksDb, commits, finalPending,
                   issued, issuedTo, logged, summary>>

----------------------------------------------------------------------------

Next ==
    \/ Connect
    \/ ConnectFail
    \/ AlterApplied
    \/ AlterRefused
    \/ AltersDone
    \/ AltersCommitFail
    \/ \E t \in OneAtATime : InsertRow(t)
    \/ \E t \in OneAtATime : InsertRowFail(t)
    \/ \E t \in OneAtATime : BatchCommit(t)
    \/ \E t \in OneAtATime : BatchCommitFail(t)
    \/ \E t \in OneAtATime : FinalCommit(t)
    \/ \E t \in OneAtATime : FinalCommitFail(t)
    \/ LinkInsert
    \/ LinkDuplicate
    \/ LinkBatchCommit
    \/ LinkFinalCommit
    \/ LinkFinalCommitFail
    \/ \E t \in FastPath : AppendRow(t)
    \/ \E t \in FastPath : Flush(t)
    \/ \E t \in FastPath : FlushFail(t)
    \/ \E t \in FastPath : FlushCommit(t)
    \/ \E t \in FastPath : FlushCommitFail(t)
    \/ \E t \in FastPath : LoopEnd(t)
    \/ \E t \in FastPath : FinalFlush(t)
    \/ \E t \in FastPath : FinalFlushFail(t)
    \/ \E t \in FastPath : FinalFlushCommit(t)
    \/ \E t \in FastPath : FinalFlushCommitFail(t)
    \/ Summary
    \/ Finally

Spec == Init /\ [][Next]_vars

----------------------------------------------------------------------------
(* Properties                                                              *)

GenPcs == {"loop", "batch_commit", "flush", "flush_commit", "final_flush", "final_commit"}

\* The generation of table t has ended and the run has not escalated:
\* a later table is in progress, or the summary is reached.
PastTable(t) ==
    \/ pc \in GenPcs /\ Index(cur) > Index(t)
    \/ pc = "summary"
    \/ summary # NoSummary

\* Rows of t generated (inserted in the open transaction or held in the
\* in-memory batch) and not yet committed.
Pending(t) == tx[t] - db[t] + (IF t \in FastPath THEN Len(batch[t]) ELSE 0)

\* C1: whenever rows are inserted into a table, each foreign key of each row
\* is in the id collection of the referenced table and is the id of a row
\* already committed, and every table earlier in the generation order is
\* complete and committed.
C1_ReferentialIntegrity ==
    issued # {} =>
        /\ \A row \in issued : \A p \in Parents(issuedTo) :
              /\ row.fk[p] \in Range(ids[p])
              /\ row.fk[p] <= db[p]
        /\ \A u \in TableSet : Index(u) < Index(issuedTo) =>
              /\ tx[u] = db[u]
              /\ u \in OneAtATime => Len(ids[u]) = N

C1_Witness ==
    /\ issuedTo = "asistencia"
    /\ issued # {}
    /\ N >= 2

\* C2 (state part): the attempts never exceed 4 x N, the successes never
\* exceed N nor the number of (clase, sede) pairs, no pair is stored twice,
\* and once the loop has ended either N rows were inserted or the budget is
\* used up; with fewer pairs than N it ends with fewer than N rows.
C2_Bounds ==
    /\ intentos <= N * BudgetFactor
    /\ relaciones_insertadas <= N
    /\ relaciones_insertadas <= Len(clase_ids) * Len(sede_ids)
    /\ \A p \in DOMAIN links : links[p] <= 1
    /\ \A p \in DOMAIN linksDb : linksDb[p] <= 1
    /\ PastTable("clase_has_sede") =>
          /\ relaciones_insertadas = N \/ intentos = N * BudgetFactor
          /\ Len(clase_ids) * Len(sede_ids) < N => relaciones_insertadas < N

\* C2 (step part): every pass through the loop body uses up one attempt.
C2_Progress ==
    (pc = "loop" /\ cur = "clase_has_sede" /\ LoopCond) => intentos' = intentos + 1

C3_ExactlyNPairs ==
    (PastTable("clase_has_sede")
        /\ Len(clase_ids) * Len(sede_ids) >= N * BudgetFactor)
    => relaciones_insertadas = N

\* C4: a one-at-a-time table of N = k x BATCH + r rows has had exactly k + 1
\* commits when its generation has ended, also when r = 0.
C4_FlushCount ==
    \A t \in OneAtATime : PastTable(t) => commits[t] = (N \div BATCH) + 1

C4_Witness ==
    /\ PastTable("alumno")
    /\ N % BATCH = 0
    /\ N \div BATCH >= 2
    /\ commits["alumno"] = (N \div BATCH) + 1

\* C5 as stated: the commit after the loop of a one-at-a-time table is only
\* issued with rows pending.
C5_RemainderFlushOnlyWhenPending ==
    \A t \in OneAtATime : finalPending[t] # -1 => finalPending[t] > 0

\* C5 as amended: the commit after the loop of a one-at-a-time table is
\* issued whatever the remainder, with r = N mod BATCH rows pending (none
\* when r = 0); only pago and asistencia skip the remainder flush when
\* nothing is left, and flush r > 0 rows otherwise.
C5_RemainderFlush ==
    /\ \A t \in OneAtATime : PastTable(t) => finalPending[t] = N % BATCH
    /\ \A t \in FastPath : PastTable(t) =>
          finalPending[t] = (IF N % BATCH = 0 THEN -1 ELSE N % BATCH)

C5_Witness ==
    /\ summary # NoSummary
    /\ N % BATCH = 0
    /\ finalPending["alumno"] = 0
    /\ finalPending["pago"] = -1

\* C6: when the generation of a table has ended, nothing of it is pending:
\* what the transaction holds is committed, all N generated rows of the
\* table are committed, and so is every counted link.
C6_NothingPendingWhenDone ==
    \A t \in TableSet : PastTable(t) =>
        /\ Pending(t) = 0
        /\ t # "clase_has_sede" => db[t] = N
        /\ t = "clase_has_sede" =>
              /\ db[t] = relaciones_insertadas
              /\ linksDb = links

C6_Witness ==
    /\ pc = "summary"
    /\ N % BATCH # 0
    /\ db["pago"] = N
    /\ db["clase_has_sede"] >= 1

\* C7: in every state, for every table, at most BATCH generated rows are
\* not yet committed.
C7_DurabilityBound == \A t \in TableSet : Pending(t) <= BATCH

C7_Witness ==
    /\ BATCH >= 2
    /\ Pending("pago") = BATCH
    /\ tx["pago"] - db["pago"] = BATCH

\* C8 (state part): the handler logs at most once; after it the summary is
\* not printed and control is in the cleanup; the run ends with cursor and
\* connection closed.
C8_Handled ==
    /\ logged <= 1
    /\ logged = 1 => summary = NoSummary /\ pc \in {"finally", "closed"}
    /\ pc = "closed" => cursor # "open" /\ conn # "open"

\* C8 (step part): a step of the ALTER loop or of the clase_has_sede loop
\* never reaches the handler and stays in its loop, a failed pair adds to
\* intentos only; any other step that leaves for the cleanup without the
\* summary went through the handler; after the handler nothing is inserted
\* or committed and no committed row is lost.
C8_Steps ==
    /\ (pc = "alters" /\ s < NumAlters) =>
          s' = s + 1 /\ pc' = "alters" /\ logged' = logged
    /\ (cur = "clase_has_sede" /\ (pc = "batch_commit" \/ (pc = "loop" /\ LoopCond))) =>
          /\ logged' = logged
          /\ cur' = cur
          /\ pc' \in {"loop", "batch_commit"}
          /\ (intentos' # intentos /\ tx' = tx) =>
                relaciones_insertadas' = relaciones_insertadas
    /\ (pc' = "finally" /\ pc # "summary") => logged' = logged + 1
    /\ logged = 1 =>
          /\ db' = db /\ linksDb' = linksDb
          /\ \A t \in TableSet : tx'[t] <= tx[t]
          /\ commits' = commits
          /\ summary' = summary

\* C8: errors of the ALTER loop and of the clase_has_sede loop are absorbed,
\* every other database error escalates once, ends the generation without
\* summary or loss of committed rows, and the resources are closed.
C8_ErrorPropagation == [][C8_Handled' /\ C8_Steps]_vars

C8_Witness ==
    /\ pc = "closed"
    /\ logged = 1
    /\ cur = "pago"
    /\ conn = "closed"
    /\ applied_alters < s
    /\ intentos > relaciones_insertadas
    /\ db["alumno"] = N

\* C9: a run that reaches the summary has N rows
\* committed in each table but clase_has_sede, at most N there, and prints
\* for each of the eight tables the number of rows committed in it.
C9_SummaryCounts ==
    summary # NoSummary =>
        /\ \A t \in TableSet \ {"clase_has_sede"} : db[t] = N
        /\ db["clase_has_sede"] <= N
        /\ \A t \in TableSet : summary[t] = db[t]

C9_Witness ==
    /\ summary # NoSummary
    /\ N >= 2
    /\ intentos > relaciones_insertadas

\* C10: when no ALTER was applied, no inserted row carries NULL in a column
\* the ALTERs would have relaxed.
C10_NoNullWithoutAlter ==
    (pc \notin {"connect", "alters"} /\ applied_alters = 0) =>
        \A row \in issued : row.nulls = {}

====
